---- MODULE Spec2Model ----
(***************************************************************************)
(* The offer / auction lifecycle of the card marketplace.                  *)
(*                                                                         *)
(* The repository holds two generations of handlers over two document      *)
(* stores:                                                                 *)
(*   - the serverless API handlers (backend/api/cards.js and the offers    *)
(*     handler) over the collections `cards` and `offers`                  *)
(*     (variables cards, apiOffers);                                       *)
(*   - the Express routes (backend/routes/*.js) over the Mongoose models   *)
(*     PokemonCard, Offer and Vendor (variables pcards, offers, vendors).  *)
(* Every action below is one whole request handler, run to completion.     *)
(***************************************************************************)
EXTENDS Integers, Sequences, FiniteSets, TLC

---------------------------------------------------------------------------
(* Bounds of the model *)

MaxTime == 2
MaxPrice == 1
MaxRequests == 3
MaxRouteRequests == 6

---------------------------------------------------------------------------
(* JavaScript values *)

\* `undefined` in a numeric or date field (an absent payload field, an unset path)
Undefined == -1

\* an absent string field of a payload
NoField == "undefined"

\* no authenticated user (missing or invalid bearer token)
NoUser == "nobody"

\* !v is false
Truthy(v) == v # Undefined /\ v # 0

\* a < b, a > b, a <= b: a comparison with undefined is false
JsLt(a, b) == a # Undefined /\ b # Undefined /\ a < b
JsGt(a, b) == a # Undefined /\ b # Undefined /\ a > b
JsLe(a, b) == a # Undefined /\ b # Undefined /\ a <= b

\* Math.max
Max(a, b) == IF a >= b THEN a ELSE b

---------------------------------------------------------------------------
(* Users: the identity provider is a collaborator; the user table is fixed. *)

Users == {"u1", "u2", "u3"}

\* the users who list cards in the model
Sellers == {"u1"}

\* user.canTrade (userSchema.canTrade, default false)
canTrade == [u \in Users |-> u # "u1"]

\* user.userType (userSchema.userType)
userType == [u \in Users |-> IF u = "u1" THEN "customer" ELSE "vendor"]

---------------------------------------------------------------------------
VARIABLES
    cards,      \* collection `cards`: sequence of Card documents, _id = index
    apiOffers,  \* collection `offers` of the API offers handler: sequence of documents
    pcards,     \* PokemonCard documents of the Express routes, _id = index
    offers,     \* Offer documents of the Express routes, _id = index
    vendors,    \* Vendor documents, _id = index
    charges,    \* payment collaborator, per offer _id: the calls of
                \* paymentIntents.create and the intents that succeeded
    now,        \* the clock read by `new Date()`
    res,        \* the last response: the operation requested and its HTTP status
    nreq,       \* requests handled so far
    inflight,   \* per server task: the request it is handling, the await it
                \* stands at, and the documents it has loaded
    perms       \* isAdmin and canTrade of the User documents, as the admin
                \* handler reads and writes them

apiVars == <<cards, apiOffers>>
routeVars == <<pcards, offers, vendors, charges>>
taskVars == <<inflight, perms>>
vars == <<cards, apiOffers, pcards, offers, vendors, charges, now, res, nreq,
          inflight, perms>>

Times == 0..(MaxTime + 1)
Prices == 0..MaxPrice
Amounts == 0..(MaxPrice + 2)
RouteAmounts == 0..MaxPrice

\* the ids a request can name: 0 (absent), the documents of a collection,
\* and one id that matches no document
Ids(coll) == 0..(Len(coll) + 1)

\* a 2xx response
Success(code) == code \in {200, 201}

\* the response of one request
Respond(op, code) ==
    /\ res' = [op |-> op, code |-> code]
    /\ nreq' = nreq + 1

---------------------------------------------------------------------------
(* backend/api/cards.js: the listing handlers of the serverless API *)

\* enum of cardSchema.status
CardStatusEnum == {"active", "sold", "expired", "draft", "pending"}

GradingCompanies == {"PSA", "TAG", "CGC", "Beckett"}

\* the grading fields of a payload: an ungraded card, a graded card, a graded
\* card without its grade, a graded card of an unknown company
Gradings ==
    { [isGraded |-> FALSE, grade |-> Undefined, gradingCompany |-> NoField],
      [isGraded |-> TRUE, grade |-> 9, gradingCompany |-> "PSA"],
      [isGraded |-> TRUE, grade |-> Undefined, gradingCompany |-> "PSA"],
      [isGraded |-> TRUE, grade |-> 9, gradingCompany |-> "XYZ"] }

\* req.body of POST /api/cards. The required fields cardName, set, year,
\* condition, rarity, frontImage and sellerId are present.
CardPayloads ==
    [ sellerId : {"u1"},
      startingPrice : Prices,
      grading : Gradings,
      isRFQ : BOOLEAN,
      minPrice : {Undefined} \cup Prices,
      auctionDuration : {Undefined, 1, 49},
      auctionEndTime : {Undefined} \cup Times ]

\* NewCard that stores the payload's minPrice whatever the mode: C8 must tell it
\* apart from the code
NewCardKeepingMinPrice(p) ==
    [ sellerId |-> p.sellerId,
      isRFQ |-> p.isRFQ,
      minPrice |-> p.minPrice,
      startingPrice |-> p.startingPrice,
      auctionEndTime |-> IF ~p.isRFQ THEN p.auctionEndTime ELSE Undefined,
      status |-> "active",
      highestBid |-> [amount |-> 0],
      totalOffers |-> 0 ]

\* new Card({...}) of the POST handler
NewCard(p) ==
    [ sellerId |-> p.sellerId,
      isRFQ |-> p.isRFQ,
      minPrice |-> IF p.isRFQ THEN p.minPrice ELSE Undefined,
      startingPrice |-> p.startingPrice,
      auctionEndTime |-> IF ~p.isRFQ THEN p.auctionEndTime ELSE Undefined,
      status |-> "active",
      highestBid |-> [amount |-> 0],
      totalOffers |-> 0 ]

\* document validation of card.save(): the validators run with this = the
\* document, and never on an undefined value
CardSchemaValid(c) ==
    /\ c.startingPrice >= 0
    /\ c.minPrice # Undefined => (~c.isRFQ \/ (c.minPrice # 0 /\ c.minPrice >= 0))
    /\ c.auctionEndTime # Undefined => TRUE
    /\ c.status \in CardStatusEnum

\* the status code of POST /api/cards at clock t
CreateCardCode(p, t) ==
    IF ~Truthy(p.startingPrice) \/ p.sellerId = NoUser THEN 400
    ELSE IF p.grading.isGraded /\ (p.grading.grade = Undefined \/ p.grading.grade < 1
                                    \/ p.grading.grade > 10) THEN 400
    ELSE IF p.grading.isGraded /\ p.grading.gradingCompany \notin GradingCompanies THEN 400
    ELSE IF p.isRFQ /\ (p.minPrice = Undefined \/ p.minPrice < 0) THEN 400
    ELSE IF p.isRFQ /\ (p.auctionDuration # Undefined \/ p.auctionEndTime # Undefined) THEN 400
    ELSE IF ~p.isRFQ /\ (p.auctionDuration = Undefined \/ p.auctionDuration < 0
                          \/ p.auctionDuration > 48) THEN 400
    ELSE IF ~p.isRFQ /\ ~Truthy(p.auctionEndTime) THEN 400
    ELSE IF ~p.isRFQ /\ p.auctionEndTime <= t THEN 400
    ELSE IF ~CardSchemaValid(NewCard(p)) THEN 500
    ELSE 201

\* POST /api/cards
ApiCreateCard(p) ==
    /\ nreq < MaxRequests
    /\ LET code == CreateCardCode(p, now) IN
        /\ Respond("createCard", code)
        /\ cards' = IF code = 201 THEN Append(cards, NewCard(p)) ELSE cards
    /\ UNCHANGED <<apiOffers, now>>
    /\ UNCHANGED routeVars
    /\ UNCHANGED taskVars

\* req.body of PUT /api/cards?id=
UpdatePayloads ==
    [ status : {NoField, "active", "sold", "cancelled"},
      startingPrice : {Undefined} \cup Prices,
      minPrice : {Undefined} \cup Prices,
      auctionEndTime : {Undefined} \cup Times ]

\* the bodies sent with an id: the handler returns before it reads the body
\* when the id is absent or matches no card
BodiesFor(id) ==
    IF id \in DOMAIN cards
    THEN UpdatePayloads
    ELSE { [status |-> NoField, startingPrice |-> Undefined,
            minPrice |-> Undefined, auctionEndTime |-> Undefined] }

\* the `updates` object built from allowedUpdates, applied to a document
ApplyUpdates(c, b) ==
    [ c EXCEPT
        !.status = IF b.status # NoField THEN b.status ELSE @,
        !.startingPrice = IF b.startingPrice # Undefined THEN b.startingPrice ELSE @,
        !.minPrice = IF b.minPrice # Undefined THEN b.minPrice ELSE @,
        !.auctionEndTime = IF b.auctionEndTime # Undefined THEN b.auctionEndTime ELSE @ ]

\* update validators of findByIdAndUpdate(..., {runValidators: true}): the
\* built-in validators (enum, min) run on the updated paths; the custom
\* validators run with `this` not the document, so this.isRFQ is undefined:
\* !this.isRFQ holds for minPrice, and auctionEndTime passes on its truthy value
UpdateValidatorsPass(b) ==
    /\ b.status # NoField => b.status \in CardStatusEnum
    /\ b.startingPrice # Undefined => b.startingPrice >= 0
    /\ b.minPrice # Undefined => b.minPrice >= 0

\* the status code of PUT /api/cards; id = 0 is an absent id. The end time is
\* compared with the clock only `if (updates.auctionEndTime)`: a body value of 0
\* (the epoch as a number) is stored without the comparison.
UpdateCardCode(id, b, t) ==
    IF id = 0 THEN 400
    ELSE IF id \notin DOMAIN cards THEN 404
    ELSE IF Truthy(b.auctionEndTime) /\ b.auctionEndTime <= t THEN 400
    ELSE IF ~UpdateValidatorsPass(b) THEN 500
    ELSE 200

\* PUT /api/cards?id=
ApiUpdateCard(id, b) ==
    /\ nreq < MaxRequests
    /\ LET code == UpdateCardCode(id, b, now) IN
        /\ Respond("updateCard", code)
        /\ cards' = IF code = 200
                    THEN [cards EXCEPT ![id] = ApplyUpdates(@, b)]
                    ELSE cards
    /\ UNCHANGED <<apiOffers, now>>
    /\ UNCHANGED routeVars
    /\ UNCHANGED taskVars

---------------------------------------------------------------------------
(* the offers handler of the serverless API *)

\* MinBid without the highest-bid snapshot: a handler that compares with the
\* starting price only, which C1 must tell apart from the code
MinBidOfStartingPrice(card) == card.startingPrice

\* Math.max(card.startingPrice, card.highestBid?.amount || 0)
MinBid(card) == Max(card.startingPrice, card.highestBid.amount)

\* BelowMinPrice with <= for <: a handler that also turns down amount = minPrice,
\* which C2 must tell apart from the code
BelowMinPriceInclusive(card, amount) == JsLe(amount, card.minPrice)

\* amount < card.minPrice
BelowMinPrice(card, amount) == JsLt(amount, card.minPrice)

\* SubmitOfferCode without the end-time check: C13 must tell it apart from the code
SubmitOfferCodeAnyTime(u, cardId, amount, t) ==
    IF u = NoUser THEN 401
    ELSE IF ~canTrade[u] THEN 403
    ELSE IF cardId = 0 \/ ~Truthy(amount) THEN 400
    ELSE IF cardId \notin DOMAIN cards THEN 404
    ELSE IF cards[cardId].status # "active" THEN 400
    ELSE IF cards[cardId].isRFQ /\ BelowMinPrice(cards[cardId], amount) THEN 400
    ELSE IF ~cards[cardId].isRFQ /\ amount <= MinBid(cards[cardId]) THEN 400
    ELSE 201

\* the status code of POST /api/offers by user u; cardId = 0 is an absent cardId
SubmitOfferCode(u, cardId, amount, t) ==
    IF u = NoUser THEN 401
    ELSE IF ~canTrade[u] THEN 403
    ELSE IF cardId = 0 \/ ~Truthy(amount) THEN 400
    ELSE IF cardId \notin DOMAIN cards THEN 404
    ELSE IF cards[cardId].status # "active" THEN 400
    ELSE IF cards[cardId].isRFQ /\ BelowMinPrice(cards[cardId], amount) THEN 400
    ELSE IF ~cards[cardId].isRFQ /\ amount <= MinBid(cards[cardId]) THEN 400
    ELSE IF ~cards[cardId].isRFQ /\ JsGt(t, cards[cardId].auctionEndTime) THEN 400
    ELSE 201

\* CardAfterOffer that overwrites the snapshot in both modes: C21 must tell it
\* apart from the code
CardAfterOfferAlwaysSnapshot(card, amount) ==
    [card EXCEPT !.highestBid = [amount |-> amount], !.totalOffers = @ + 1]

\* the card after a persisted offer: the snapshot is overwritten for an auction
\* (the handler's Card schema keeps highestBid.amount only), the counter
\* incremented for both modes
CardAfterOffer(card, amount) ==
    IF ~card.isRFQ
    THEN [card EXCEPT !.highestBid = [amount |-> amount], !.totalOffers = @ + 1]
    ELSE [card EXCEPT !.totalOffers = @ + 1]

\* POST /api/offers
ApiSubmitOffer(u, cardId, amount) ==
    /\ nreq < MaxRequests
    /\ LET code == SubmitOfferCode(u, cardId, amount, now) IN
        /\ Respond("submitOffer", code)
        /\ IF code = 201
           THEN /\ apiOffers' = Append(apiOffers,
                        [cardId |-> cardId, bidderId |-> u,
                         amount |-> amount, status |-> "pending"])
                /\ cards' = [cards EXCEPT ![cardId] = CardAfterOffer(@, amount)]
           ELSE UNCHANGED <<cards, apiOffers>>
    /\ UNCHANGED now
    /\ UNCHANGED routeVars
    /\ UNCHANGED taskVars

---------------------------------------------------------------------------
(* backend/routes/cards.js over backend/models/PokemonCard.js *)

\* enum of pokemonCardSchema.status
PokemonCardStatusEnum == {"active", "expired", "sold", "cancelled"}

\* no offer referenced (card.highestBid unset)
NoOffer == 0

\* new PokemonCard({...}): the fields the routes read or write. auctionEndTime
\* is the clock plus auctionDuration hours.
NewPokemonCard(u, auctionDuration, t) ==
    [ seller |-> u,
      auctionEndTime |-> t + auctionDuration,
      status |-> "active",
      highestBid |-> NoOffer,
      totalOffers |-> 0,
      deleted |-> FALSE ]

\* PokemonCard.findById(id) finds a document: ids are never reused, and a
\* deleted document keeps its place in pcards with deleted set
CardFound(id) == id \in DOMAIN pcards /\ ~pcards[id].deleted

\* the status code of POST /cards: parseInt(undefined) is NaN, the end time an
\* invalid date, and card.save() throws
RouteCreateCardCode(u, auctionDuration) ==
    IF u = NoUser THEN 401
    ELSE IF auctionDuration = Undefined THEN 500
    ELSE 201

\* POST /cards
RouteCreateCard(u, auctionDuration) ==
    /\ nreq < MaxRouteRequests
    /\ LET code == RouteCreateCardCode(u, auctionDuration) IN
        /\ Respond("createCard", code)
        /\ pcards' = IF code = 201
                     THEN Append(pcards, NewPokemonCard(u, auctionDuration, now))
                     ELSE pcards
    /\ UNCHANGED <<offers, vendors, charges, now>>
    /\ UNCHANGED apiVars
    /\ UNCHANGED taskVars

\* the status code of PATCH /cards/:id/status
UpdateStatusCode(u, id, status) ==
    IF u = NoUser THEN 401
    ELSE IF ~CardFound(id) THEN 404
    ELSE IF pcards[id].seller # u THEN 403
    ELSE IF status \notin PokemonCardStatusEnum THEN 500
    ELSE 200

\* PATCH /cards/:id/status
RouteUpdateStatus(u, id, status) ==
    /\ nreq < MaxRouteRequests
    /\ LET code == UpdateStatusCode(u, id, status) IN
        /\ Respond("updateStatus", code)
        /\ pcards' = IF code = 200
                     THEN [pcards EXCEPT ![id].status = status]
                     ELSE pcards
    /\ UNCHANGED <<offers, vendors, charges, now>>
    /\ UNCHANGED apiVars
    /\ UNCHANGED taskVars

\* the status code of DELETE /cards/:id
DeleteCardCode(u, id) ==
    IF u = NoUser THEN 401
    ELSE IF ~CardFound(id) THEN 404
    ELSE IF pcards[id].seller # u THEN 403
    ELSE 200

\* DELETE /cards/:id: PokemonCard.findByIdAndDelete
RouteDeleteCard(u, id) ==
    /\ nreq < MaxRouteRequests
    /\ LET code == DeleteCardCode(u, id) IN
        /\ Respond("deleteCard", code)
        /\ pcards' = IF code = 200
                     THEN [pcards EXCEPT ![id].deleted = TRUE]
                     ELSE pcards
    /\ UNCHANGED <<offers, vendors, charges, now>>
    /\ UNCHANGED apiVars
    /\ UNCHANGED taskVars

---------------------------------------------------------------------------
(* backend/routes/offers.js over backend/models/Offer.js *)

\* commissionRate = 0.03, in percent
CommissionRatePercent == 3

\* amount * commissionRate, in hundredths of the currency unit
CommissionAmount(amount) == amount * CommissionRatePercent

\* requireRole(roles)
RequireRole(u, roles) == userType[u] \in roles

\* Offer.findOne({card, vendor, status: {$in: ['pending', 'accepted']}})
ExistingOffer(cardId, u) ==
    \E i \in DOMAIN offers :
        /\ offers[i].card = cardId
        /\ offers[i].vendor = u
        /\ offers[i].status \in {"pending", "accepted"}

\* the status code of POST /offers
RouteSubmitOfferCode(u, cardId, amount, t) ==
    IF u = NoUser THEN 401
    ELSE IF ~RequireRole(u, {"vendor"}) THEN 403
    ELSE IF ~CardFound(cardId) THEN 404
    ELSE IF pcards[cardId].status # "active" THEN 400
    ELSE IF JsGt(t, pcards[cardId].auctionEndTime) THEN 400
    ELSE IF ExistingOffer(cardId, u) THEN 400
    ELSE IF amount = Undefined THEN 500
    ELSE 201

\* the card after a saved offer: card.highestBid holds an offer _id, so
\* card.highestBid.amount is undefined and the comparison is amount > 0
PokemonCardAfterOffer(card, offerId, amount) ==
    [ card EXCEPT
        !.totalOffers = @ + 1,
        !.highestBid = IF card.highestBid = NoOffer \/ amount > 0 THEN offerId ELSE @ ]

\* POST /offers
RouteSubmitOffer(u, cardId, amount) ==
    /\ nreq < MaxRouteRequests
    /\ LET code == RouteSubmitOfferCode(u, cardId, amount, now) IN
        /\ Respond("submitOffer", code)
        /\ IF code = 201
           THEN /\ offers' = Append(offers,
                        [ card |-> cardId, vendor |-> u, amount |-> amount,
                          status |-> "pending", commissionPaid |-> FALSE,
                          commissionAmount |-> CommissionAmount(amount) ])
                /\ charges' = Append(charges, [calls |-> 0, succeeded |-> 0])
                /\ pcards' = [pcards EXCEPT
                        ![cardId] = PokemonCardAfterOffer(@, Len(offers) + 1, amount)]
           ELSE UNCHANGED <<pcards, offers, charges>>
    /\ UNCHANGED <<vendors, now>>
    /\ UNCHANGED apiVars
    /\ UNCHANGED taskVars

\* AcceptOfferCode without the seller check: C11 must tell it apart from the code
AcceptOfferCodeAnyCaller(u, id, t) ==
    IF u = NoUser THEN 401
    ELSE IF id \notin DOMAIN offers THEN 404
    ELSE IF ~CardFound(offers[id].card) THEN 500
    ELSE IF JsLe(t, pcards[offers[id].card].auctionEndTime) THEN 400
    ELSE 200

\* AcceptOfferCode without the end-time check: C12 must tell it apart from the code
AcceptOfferCodeAnyTime(u, id, t) ==
    IF u = NoUser THEN 401
    ELSE IF id \notin DOMAIN offers THEN 404
    ELSE IF ~CardFound(offers[id].card) THEN 500
    ELSE IF pcards[offers[id].card].seller # u THEN 403
    ELSE 200

\* the status code of PATCH /offers/:id/accept: populate('card') leaves
\* offer.card null when the card is gone, and offer.card.seller throws
AcceptOfferCode(u, id, t) ==
    IF u = NoUser THEN 401
    ELSE IF id \notin DOMAIN offers THEN 404
    ELSE IF ~CardFound(offers[id].card) THEN 500
    ELSE IF pcards[offers[id].card].seller # u THEN 403
    ELSE IF JsLe(t, pcards[offers[id].card].auctionEndTime) THEN 400
    ELSE 200

\* RejectOthers that updates nothing: C4 must tell it apart from the code
RejectOthersNone(os, cardId, id) == os

\* RejectOthers without the card filter: C5 must tell it apart from the code
RejectOthersOfAnyCard(os, cardId, id) ==
    [ i \in DOMAIN os |->
        IF i # id THEN [os[i] EXCEPT !.status = "rejected"] ELSE os[i] ]

\* Offer.updateMany({card, _id: {$ne: id}}, {status: 'rejected'})
RejectOthers(os, cardId, id) ==
    [ i \in DOMAIN os |->
        IF os[i].card = cardId /\ i # id
        THEN [os[i] EXCEPT !.status = "rejected"]
        ELSE os[i] ]

\* PATCH /offers/:id/accept
AcceptOffer(u, id) ==
    /\ nreq < MaxRouteRequests
    /\ LET code == AcceptOfferCode(u, id, now) IN
        /\ Respond("acceptOffer", code)
        /\ IF code = 200
           THEN /\ offers' = RejectOthers([offers EXCEPT ![id].status = "accepted"],
                                          offers[id].card, id)
                /\ pcards' = [pcards EXCEPT
                        ![offers[id].card] = [@ EXCEPT !.status = "sold", !.highestBid = id]]
           ELSE UNCHANGED <<pcards, offers>>
    /\ UNCHANGED <<vendors, charges, now>>
    /\ UNCHANGED apiVars
    /\ UNCHANGED taskVars

\* the status code of PATCH /offers/:id/reject
RejectOfferCode(u, id) ==
    IF u = NoUser THEN 401
    ELSE IF id \notin DOMAIN offers THEN 404
    ELSE IF ~CardFound(offers[id].card) THEN 500
    ELSE IF pcards[offers[id].card].seller # u THEN 403
    ELSE 200

\* PATCH /offers/:id/reject
RejectOffer(u, id) ==
    /\ nreq < MaxRouteRequests
    /\ LET code == RejectOfferCode(u, id) IN
        /\ Respond("rejectOffer", code)
        /\ offers' = IF code = 200
                     THEN [offers EXCEPT ![id].status = "rejected"]
                     ELSE offers
    /\ UNCHANGED <<pcards, vendors, charges, now>>
    /\ UNCHANGED apiVars
    /\ UNCHANGED taskVars

---------------------------------------------------------------------------
(* backend/routes/payments.js *)

\* what the collaborators of the handler do: the payment intent succeeds, it
\* ends in another status, or paymentIntents.create throws; or the intent
\* succeeds and offer.save() goes through, but Vendor.findByIdAndUpdate throws
PaymentOutcomes == {"succeeded", "requires_action", "error", "vendor_update_error"}

\* PayCommissionGuard without the commissionPaid check: C6 must tell it apart
\* from the code
PayCommissionGuardIgnoringPaid(u, id) ==
    IF u = NoUser THEN 401
    ELSE IF ~RequireRole(u, {"vendor"}) THEN 403
    ELSE IF id \notin DOMAIN offers THEN 404
    ELSE IF offers[id].status # "accepted" THEN 400
    ELSE IF ~CardFound(offers[id].card) THEN 500
    ELSE 0

\* the checks of POST /payments/commission that come before the payment
\* intent is created: the status code of the one that fails, 0 if none does.
\* The arguments of paymentIntents.create read offer.card.cardName, which
\* throws before the call when the card is gone.
PayCommissionGuard(u, id) ==
    IF u = NoUser THEN 401
    ELSE IF ~RequireRole(u, {"vendor"}) THEN 403
    ELSE IF id \notin DOMAIN offers THEN 404
    ELSE IF offers[id].status # "accepted" THEN 400
    ELSE IF offers[id].commissionPaid THEN 400
    ELSE IF ~CardFound(offers[id].card) THEN 500
    ELSE 0

\* paymentIntent.status === 'succeeded'
IntentSucceeded(outcome) == outcome \in {"succeeded", "vendor_update_error"}

\* the status code of POST /payments/commission
PayCommissionCode(u, id, outcome) ==
    IF PayCommissionGuard(u, id) # 0 THEN PayCommissionGuard(u, id)
    ELSE IF outcome = "error" THEN 500
    ELSE IF outcome = "requires_action" THEN 400
    ELSE IF outcome = "vendor_update_error" THEN 500
    ELSE 200

\* Vendor.findByIdAndUpdate(id, {$inc: {totalLeads: 1, totalCommissionPaid: amount}}):
\* the Vendor document whose _id is id, if there is one
VendorIncrement(vs, id, amount) ==
    [ i \in DOMAIN vs |->
        IF vs[i].id = id
        THEN [vs[i] EXCEPT !.totalLeads = @ + 1, !.totalCommissionPaid = @ + amount]
        ELSE vs[i] ]

\* POST /payments/commission. offer.vendor is populated from the User
\* collection (offerSchema.vendor, ref 'User'), so offer.vendor._id is a user _id.
PayCommission(u, id, outcome) ==
    /\ nreq < MaxRouteRequests
    /\ LET code == PayCommissionCode(u, id, outcome) IN
        /\ Respond("payCommission", code)
        /\ charges' = IF PayCommissionGuard(u, id) = 0
                      THEN [charges EXCEPT
                              ![id].calls = @ + 1,
                              ![id].succeeded = IF IntentSucceeded(outcome) THEN @ + 1 ELSE @]
                      ELSE charges
        /\ offers' = IF PayCommissionGuard(u, id) = 0 /\ IntentSucceeded(outcome)
                     THEN [offers EXCEPT ![id].commissionPaid = TRUE]
                     ELSE offers
        /\ vendors' = IF code = 200
                      THEN VendorIncrement(vendors, offers[id].vendor,
                                           offers[id].commissionAmount)
                      ELSE vendors
    /\ UNCHANGED <<pcards, now>>
    /\ UNCHANGED apiVars
    /\ UNCHANGED taskVars

---------------------------------------------------------------------------
\* time passes
Tick ==
    /\ now < MaxTime
    /\ now' = now + 1
    /\ UNCHANGED <<cards, apiOffers, res, nreq>>
    /\ UNCHANGED routeVars
    /\ UNCHANGED taskVars

\* the requests the server handles at the same time: every await of a handler
\* lets the other task run
Tasks == {1, 2}

\* a task that handles no request
Idle == [pc |-> "idle"]

\* every request has been answered
AllIdle == \A t \in Tasks : inflight[t].pc = "idle"

\* the User documents at the start: the seeded administrator (isAdmin and
\* canTrade true) is u2, the other users have the schema default isAdmin false
InitPerms == [u \in Users |-> [isAdmin |-> u = "u2", canTrade |-> canTrade[u]]]

\* the Vendor documents of the users registered as vendors: new Vendor({user, ...})
\* has an _id of its own, and commissionRate: commissionRate || 0.03 (in
\* percent: u2 registered without a rate, u3 with 5%)
InitVendors ==
    << [id |-> "v2", user |-> "u2", commissionRate |-> CommissionRatePercent,
        totalLeads |-> 0, totalCommissionPaid |-> 0],
       [id |-> "v3", user |-> "u3", commissionRate |-> 5,
        totalLeads |-> 0, totalCommissionPaid |-> 0] >>

Init ==
    /\ cards = <<>>
    /\ apiOffers = <<>>
    /\ pcards = <<>>
    /\ offers = <<>>
    /\ vendors = InitVendors
    /\ charges = <<>>
    /\ now = 0
    /\ res = [op |-> "none", code |-> 0]
    /\ nreq = 0
    /\ inflight = [t \in Tasks |-> Idle]
    /\ perms = InitPerms

NextApi ==
    \/ \E p \in CardPayloads : ApiCreateCard(p)
    \/ \E id \in Ids(cards) : \E b \in BodiesFor(id) : ApiUpdateCard(id, b)
    \/ \E u \in Users \cup {NoUser}, cardId \in Ids(cards), amount \in Amounts :
            ApiSubmitOffer(u, cardId, amount)
    \/ Tick

SpecApi == Init /\ [][NextApi]_vars

\* the callers of the routes that look at the caller only to tell the seller,
\* a vendor and an unauthenticated request apart
Callers == {"u1", "u2", NoUser}

\* auctionDuration of a POST /cards body: absent, or 0 hours, with which the
\* auction is open at the clock of its creation and over at the next
Durations == {Undefined, 0}

Next ==
    \/ \E u \in Sellers \cup {NoUser}, d \in Durations : RouteCreateCard(u, d)
    \/ \E u \in Callers, id \in Ids(pcards),
          status \in {"active", "cancelled", "draft"} : RouteUpdateStatus(u, id, status)
    \/ \E u \in Callers, id \in Ids(pcards) : RouteDeleteCard(u, id)
    \/ \E u \in Users \cup {NoUser}, cardId \in Ids(pcards),
          amount \in {Undefined} \cup RouteAmounts : RouteSubmitOffer(u, cardId, amount)
    \/ \E u \in Callers, id \in Ids(offers) : AcceptOffer(u, id)
    \/ \E u \in Callers, id \in Ids(offers) : RejectOffer(u, id)
    \/ \E u \in Callers, id \in Ids(offers), outcome \in PaymentOutcomes :
            PayCommission(u, id, outcome)
    \/ Tick

Spec == Init /\ [][Next]_vars

\* the amounts of the bidding runs: two different amounts above 0 are needed
\* to tell a higher bid from a later one
BidAmounts == 0..(MaxPrice + 1)

\* create and submit-offer requests of the Express routes only
NextBids ==
    \/ \E d \in Durations : RouteCreateCard("u1", d)
    \/ \E u \in {"u2", "u3"}, cardId \in Ids(pcards), amount \in BidAmounts :
            RouteSubmitOffer(u, cardId, amount)
    \/ Tick

SpecBids == Init /\ [][NextBids]_vars

---------------------------------------------------------------------------
(* the handlers step by step: a handler runs to its next await, and the
   other task may run in between *)

\* a request taken up by a task: it counts as a request, and is answered later
TakeUp(t, frame) ==
    /\ inflight' = [inflight EXCEPT ![t] = frame]
    /\ nreq' = nreq + 1
    /\ UNCHANGED res

\* the response of a request taken up earlier
Answer(t, op, code) ==
    /\ inflight' = [inflight EXCEPT ![t] = Idle]
    /\ res' = [op |-> op, code |-> code]
    /\ UNCHANGED nreq

\* POST /api/offers up to offer.save(): authenticate, the permission and field
\* checks, Card.findById and the checks on the loaded card
ApiSubmitBegin(t, u, cardId, amount) ==
    /\ nreq < MaxRequests
    /\ inflight[t].pc = "idle"
    /\ LET code == SubmitOfferCode(u, cardId, amount, now) IN
         IF code = 201
         THEN TakeUp(t, [pc |-> "apiOfferSave", user |-> u, cardId |-> cardId,
                         amount |-> amount, card |-> cards[cardId]])
         ELSE Respond("submitOffer", code) /\ UNCHANGED inflight
    /\ UNCHANGED <<cards, apiOffers, now, perms>>
    /\ UNCHANGED routeVars

\* await offer.save()
ApiSubmitSaveOffer(t) ==
    /\ inflight[t].pc = "apiOfferSave"
    /\ apiOffers' = Append(apiOffers,
            [cardId |-> inflight[t].cardId, bidderId |-> inflight[t].user,
             amount |-> inflight[t].amount, status |-> "pending"])
    /\ inflight' = [inflight EXCEPT ![t].pc = "apiCardSave"]
    /\ UNCHANGED <<cards, now, res, nreq, perms>>
    /\ UNCHANGED routeVars

\* card.save() of a loaded document: the modified paths are written with the
\* values the document has in memory
CardSave(stored, loaded, amount) ==
    [ stored EXCEPT
        !.totalOffers = CardAfterOffer(loaded, amount).totalOffers,
        !.highestBid = IF loaded.isRFQ THEN @
                       ELSE CardAfterOffer(loaded, amount).highestBid ]

\* await card.save(), and the 201 response
ApiSubmitSaveCard(t) ==
    /\ inflight[t].pc = "apiCardSave"
    /\ cards' = [cards EXCEPT
            ![inflight[t].cardId] = CardSave(@, inflight[t].card, inflight[t].amount)]
    /\ Answer(t, "submitOffer", 201)
    /\ UNCHANGED <<apiOffers, now, perms>>
    /\ UNCHANGED routeVars

NextApiTasks ==
    \/ \E p \in CardPayloads : ApiCreateCard(p)
    \/ \E t \in Tasks, u \in Users \cup {NoUser}, cardId \in Ids(cards), amount \in Amounts :
            ApiSubmitBegin(t, u, cardId, amount)
    \/ \E t \in Tasks : ApiSubmitSaveOffer(t)
    \/ \E t \in Tasks : ApiSubmitSaveCard(t)
    \/ Tick

SpecApiTasks == Init /\ [][NextApiTasks]_vars

\* POST /offers up to Offer.findOne: the status code of auth, requireRole,
\* PokemonCard.findById and the checks on the loaded card, 0 if none fails
RouteSubmitLoadCode(u, cardId, t) ==
    IF u = NoUser THEN 401
    ELSE IF ~RequireRole(u, {"vendor"}) THEN 403
    ELSE IF ~CardFound(cardId) THEN 404
    ELSE IF pcards[cardId].status # "active" THEN 400
    ELSE IF JsGt(t, pcards[cardId].auctionEndTime) THEN 400
    ELSE 0

\* POST /offers: await PokemonCard.findById(cardId)
RouteSubmitBegin(t, u, cardId, amount) ==
    /\ nreq < MaxRouteRequests
    /\ inflight[t].pc = "idle"
    /\ LET code == RouteSubmitLoadCode(u, cardId, now) IN
         IF code = 0
         THEN TakeUp(t, [pc |-> "findExisting", user |-> u, cardId |-> cardId,
                         amount |-> amount, card |-> pcards[cardId]])
         ELSE Respond("submitOffer", code) /\ UNCHANGED inflight
    /\ UNCHANGED <<now, perms>>
    /\ UNCHANGED routeVars
    /\ UNCHANGED apiVars

\* await Offer.findOne({card, vendor, status: {$in: [...]}})
RouteSubmitFindExisting(t) ==
    /\ inflight[t].pc = "findExisting"
    /\ IF ExistingOffer(inflight[t].cardId, inflight[t].user)
       THEN Answer(t, "submitOffer", 400)
       ELSE /\ inflight' = [inflight EXCEPT ![t].pc = "offerSave"]
            /\ UNCHANGED <<res, nreq>>
    /\ UNCHANGED <<now, perms>>
    /\ UNCHANGED routeVars
    /\ UNCHANGED apiVars

\* await offer.save()
RouteSubmitSaveOffer(t) ==
    /\ inflight[t].pc = "offerSave"
    /\ IF inflight[t].amount = Undefined
       THEN Answer(t, "submitOffer", 500) /\ UNCHANGED <<offers, charges>>
       ELSE /\ offers' = Append(offers,
                    [ card |-> inflight[t].cardId, vendor |-> inflight[t].user,
                      amount |-> inflight[t].amount,
                      status |-> "pending", commissionPaid |-> FALSE,
                      commissionAmount |-> CommissionAmount(inflight[t].amount) ])
            /\ charges' = Append(charges, [calls |-> 0, succeeded |-> 0])
            /\ inflight' = [inflight EXCEPT ![t] =
                    [pc |-> "cardSave", user |-> inflight[t].user,
                     cardId |-> inflight[t].cardId, amount |-> inflight[t].amount,
                     card |-> inflight[t].card, offerId |-> Len(offers) + 1]]
            /\ UNCHANGED <<res, nreq>>
    /\ UNCHANGED <<pcards, vendors, now, perms>>
    /\ UNCHANGED apiVars

\* card.save() of the document loaded at the start: totalOffers is written
\* with the loaded value + 1, highestBid when the handler assigned it
PokemonCardSave(stored, loaded, offerId, amount) ==
    [ stored EXCEPT
        !.totalOffers = PokemonCardAfterOffer(loaded, offerId, amount).totalOffers,
        !.highestBid = IF PokemonCardAfterOffer(loaded, offerId, amount).highestBid
                             # loaded.highestBid
                       THEN offerId ELSE @ ]

\* await card.save(), and the 201 response
RouteSubmitSaveCard(t) ==
    /\ inflight[t].pc = "cardSave"
    /\ pcards' = [pcards EXCEPT ![inflight[t].cardId] =
            PokemonCardSave(@, inflight[t].card, inflight[t].offerId, inflight[t].amount)]
    /\ Answer(t, "submitOffer", 201)
    /\ UNCHANGED <<offers, vendors, charges, now, perms>>
    /\ UNCHANGED apiVars

\* PATCH /offers/:id/accept: await Offer.findById(id).populate('card'), and
\* the checks on the loaded offer
AcceptBegin(t, u, id) ==
    /\ nreq < MaxRouteRequests
    /\ inflight[t].pc = "idle"
    /\ LET code == AcceptOfferCode(u, id, now) IN
         IF code = 200
         THEN TakeUp(t, [pc |-> "acceptSave", id |-> id, cardId |-> offers[id].card])
         ELSE Respond("acceptOffer", code) /\ UNCHANGED inflight
    /\ UNCHANGED <<now, perms>>
    /\ UNCHANGED routeVars
    /\ UNCHANGED apiVars

\* offer.status = 'accepted'; await offer.save()
AcceptSaveOffer(t) ==
    /\ inflight[t].pc = "acceptSave"
    /\ offers' = [offers EXCEPT ![inflight[t].id].status = "accepted"]
    /\ inflight' = [inflight EXCEPT ![t].pc = "acceptCard"]
    /\ UNCHANGED <<pcards, vendors, charges, now, res, nreq, perms>>
    /\ UNCHANGED apiVars

\* await PokemonCard.findByIdAndUpdate(offer.card._id, {status: 'sold', highestBid})
AcceptUpdateCard(t) ==
    /\ inflight[t].pc = "acceptCard"
    /\ pcards' = [pcards EXCEPT ![inflight[t].cardId] =
            [@ EXCEPT !.status = "sold", !.highestBid = inflight[t].id]]
    /\ inflight' = [inflight EXCEPT ![t].pc = "acceptOthers"]
    /\ UNCHANGED <<offers, vendors, charges, now, res, nreq, perms>>
    /\ UNCHANGED apiVars

\* await Offer.updateMany(...), and the 200 response
AcceptRejectOthers(t) ==
    /\ inflight[t].pc = "acceptOthers"
    /\ offers' = RejectOthers(offers, inflight[t].cardId, inflight[t].id)
    /\ Answer(t, "acceptOffer", 200)
    /\ UNCHANGED <<pcards, vendors, charges, now, perms>>
    /\ UNCHANGED apiVars

\* PATCH /offers/:id/reject: await Offer.findById(id).populate('card'), and
\* the checks on the loaded offer
RejectBegin(t, u, id) ==
    /\ nreq < MaxRouteRequests
    /\ inflight[t].pc = "idle"
    /\ LET code == RejectOfferCode(u, id) IN
         IF code = 200
         THEN TakeUp(t, [pc |-> "rejectSave", id |-> id])
         ELSE Respond("rejectOffer", code) /\ UNCHANGED inflight
    /\ UNCHANGED <<now, perms>>
    /\ UNCHANGED routeVars
    /\ UNCHANGED apiVars

\* offer.status = 'rejected'; await offer.save(), and the 200 response
RejectSave(t) ==
    /\ inflight[t].pc = "rejectSave"
    /\ offers' = [offers EXCEPT ![inflight[t].id].status = "rejected"]
    /\ Answer(t, "rejectOffer", 200)
    /\ UNCHANGED <<pcards, vendors, charges, now, perms>>
    /\ UNCHANGED apiVars

\* POST /payments/commission: await Offer.findById(offerId).populate(...), and
\* the checks on the loaded offer
PayBegin(t, u, id) ==
    /\ nreq < MaxRouteRequests
    /\ inflight[t].pc = "idle"
    /\ LET code == PayCommissionGuard(u, id) IN
         IF code = 0
         THEN TakeUp(t, [pc |-> "payIntent", id |-> id, vendor |-> offers[id].vendor,
                         commissionAmount |-> offers[id].commissionAmount])
         ELSE Respond("payCommission", code) /\ UNCHANGED inflight
    /\ UNCHANGED <<now, perms>>
    /\ UNCHANGED routeVars
    /\ UNCHANGED apiVars

\* await stripe.paymentIntents.create(...): it throws (500), the intent ends
\* in another status (400), or it succeeds
PayIntent(t, outcome) ==
    /\ inflight[t].pc = "payIntent"
    /\ charges' = [charges EXCEPT
            ![inflight[t].id].calls = @ + 1,
            ![inflight[t].id].succeeded = IF IntentSucceeded(outcome) THEN @ + 1 ELSE @]
    /\ IF IntentSucceeded(outcome)
       THEN /\ inflight' = [inflight EXCEPT ![t] =
                    [pc |-> "paySave", id |-> inflight[t].id,
                     vendor |-> inflight[t].vendor,
                     commissionAmount |-> inflight[t].commissionAmount,
                     outcome |-> outcome]]
            /\ UNCHANGED <<res, nreq>>
       ELSE Answer(t, "payCommission", IF outcome = "error" THEN 500 ELSE 400)
    /\ UNCHANGED <<pcards, offers, vendors, now, perms>>
    /\ UNCHANGED apiVars

\* offer.commissionPaid = true; await offer.save()
PaySaveOffer(t) ==
    /\ inflight[t].pc = "paySave"
    /\ offers' = [offers EXCEPT ![inflight[t].id].commissionPaid = TRUE]
    /\ inflight' = [inflight EXCEPT ![t].pc = "payVendor"]
    /\ UNCHANGED <<pcards, vendors, charges, now, res, nreq, perms>>
    /\ UNCHANGED apiVars

\* await Vendor.findByIdAndUpdate(offer.vendor._id, {$inc: ...}), and the 200
\* response; or the update throws, and the 500 response
PayVendorUpdate(t) ==
    /\ inflight[t].pc = "payVendor"
    /\ IF inflight[t].outcome = "vendor_update_error"
       THEN Answer(t, "payCommission", 500) /\ UNCHANGED vendors
       ELSE /\ vendors' = VendorIncrement(vendors, inflight[t].vendor,
                                          inflight[t].commissionAmount)
            /\ Answer(t, "payCommission", 200)
    /\ UNCHANGED <<pcards, offers, charges, now, perms>>
    /\ UNCHANGED apiVars

\* the users who bid in the interleaved runs, and the amount they offer
Bidders == {"u2", "u3"}

NextTasks ==
    \/ RouteCreateCard("u1", 0)
    \/ \E t \in Tasks, u \in Bidders, cardId \in DOMAIN pcards :
            RouteSubmitBegin(t, u, cardId, MaxPrice)
    \/ \E t \in Tasks : RouteSubmitFindExisting(t)
    \/ \E t \in Tasks : RouteSubmitSaveOffer(t)
    \/ \E t \in Tasks : RouteSubmitSaveCard(t)
    \/ \E t \in Tasks, id \in DOMAIN offers : AcceptBegin(t, "u1", id)
    \/ \E t \in Tasks : AcceptSaveOffer(t)
    \/ \E t \in Tasks : AcceptUpdateCard(t)
    \/ \E t \in Tasks : AcceptRejectOthers(t)
    \/ \E t \in Tasks, id \in DOMAIN offers : RejectBegin(t, "u1", id)
    \/ \E t \in Tasks : RejectSave(t)
    \/ \E t \in Tasks, id \in DOMAIN offers : PayBegin(t, "u2", id)
    \/ \E t \in Tasks, outcome \in PaymentOutcomes : PayIntent(t, outcome)
    \/ \E t \in Tasks : PaySaveOffer(t)
    \/ \E t \in Tasks : PayVendorUpdate(t)
    \/ Tick

SpecTasks == Init /\ [][NextTasks]_vars

---------------------------------------------------------------------------
(* the admin handler, PUT: update user permissions *)

\* canTrade and isAdmin of req.body: absent, the JSON booleans, and the number 0
PermValues == {NoField, "true", "false", "0"}

\* isAdmin === false
StrictlyFalse(v) == v = "false"

\* the Boolean cast of the User schema: true for true; false for false and 0
CastBoolean(v) == v = "true"

\* the status code of authenticate and of the userId check, 0 if none fails
AdminAuthCode(caller, userId) ==
    IF caller = NoUser THEN 401
    ELSE IF ~perms[caller].isAdmin THEN 403
    ELSE IF userId = NoField THEN 400
    ELSE 0

\* await authenticate(req, res, ...): User.findById(decoded.userId) and the
\* isAdmin check on the loaded user; then the userId check
AdminBegin(t, caller, b) ==
    /\ nreq < MaxRequests
    /\ inflight[t].pc = "idle"
    /\ LET code == AdminAuthCode(caller, b.userId) IN
         IF code = 0
         THEN TakeUp(t, [pc |-> "adminFind", caller |-> caller, body |-> b])
         ELSE Respond("updatePermissions", code) /\ UNCHANGED inflight
    /\ UNCHANGED <<now, perms>>
    /\ UNCHANGED routeVars
    /\ UNCHANGED apiVars

\* await User.findById(userId), and the check against removing one's own
\* admin status
AdminFindUser(t) ==
    /\ inflight[t].pc = "adminFind"
    /\ IF inflight[t].body.userId \notin Users
       THEN Answer(t, "updatePermissions", 404)
       ELSE IF /\ inflight[t].body.userId = inflight[t].caller
               /\ StrictlyFalse(inflight[t].body.isAdmin)
       THEN Answer(t, "updatePermissions", 400)
       ELSE /\ inflight' = [inflight EXCEPT ![t].pc = "adminUpdate"]
            /\ UNCHANGED <<res, nreq>>
    /\ UNCHANGED <<now, perms>>
    /\ UNCHANGED routeVars
    /\ UNCHANGED apiVars

\* the `updates` object applied to a User document
ApplyPermissions(user, b) ==
    [ isAdmin |-> IF b.isAdmin # NoField THEN CastBoolean(b.isAdmin) ELSE user.isAdmin,
      canTrade |-> IF b.canTrade # NoField THEN CastBoolean(b.canTrade) ELSE user.canTrade ]

\* await User.findByIdAndUpdate(userId, updates, ...), and the 200 response
AdminUpdate(t) ==
    /\ inflight[t].pc = "adminUpdate"
    /\ perms' = [perms EXCEPT ![inflight[t].body.userId] = ApplyPermissions(@, inflight[t].body)]
    /\ Answer(t, "updatePermissions", 200)
    /\ UNCHANGED now
    /\ UNCHANGED routeVars
    /\ UNCHANGED apiVars

\* req.body of the admin PUT: userId absent, of a user, or of no user
AdminBodies ==
    [ userId : {NoField, "u9"} \cup Users, canTrade : PermValues, isAdmin : PermValues ]

NextAdmin ==
    \/ \E t \in Tasks, caller \in Users \cup {NoUser}, b \in AdminBodies : AdminBegin(t, caller, b)
    \/ \E t \in Tasks : AdminFindUser(t)
    \/ \E t \in Tasks : AdminUpdate(t)

SpecAdmin == Init /\ [][NextAdmin]_vars

---------------------------------------------------------------------------
(* Properties of the API offers handler (specification SpecApi) *)

\* the offer document a successful POST /api/offers persists
PendingOffer(u, cardId, amount) ==
    [cardId |-> cardId, bidderId |-> u, amount |-> amount, status |-> "pending"]

\* an active listing a user allowed to trade can bid on
Biddable(u, c) == canTrade[u] /\ cards[c].status = "active"

\* C1: on an active auction listing whose end time has not passed, a bid by a
\* user allowed to trade with amount <= max(startingPrice, highestBid.amount) is
\* rejected and persists no offer; a strictly greater amount succeeds, persists
\* a pending offer with that amount, and the snapshot amount becomes that amount.
C1_AuctionBidAgainstFloor ==
    [][ res'.op = "submitOffer"
        => \A u \in Users, c \in DOMAIN cards, a \in Amounts :
          ( /\ Biddable(u, c)
            /\ ~cards[c].isRFQ
            /\ ~JsGt(now, cards[c].auctionEndTime)
            /\ ApiSubmitOffer(u, c, a) )
          => IF a <= Max(cards[c].startingPrice, cards[c].highestBid.amount)
             THEN ~Success(res'.code) /\ apiOffers' = apiOffers
             ELSE /\ Success(res'.code)
                  /\ apiOffers' = Append(apiOffers, PendingOffer(u, c, a))
                  /\ cards'[c].highestBid.amount = a ]_vars

\* C1 witness: two bids were taken on one auction listing, the second above the
\* first, and the snapshot holds the amount of the second
C1_TwoBidsTaken ==
    /\ res = [op |-> "submitOffer", code |-> 201]
    /\ Len(apiOffers) = 2
    /\ apiOffers[1].cardId = apiOffers[2].cardId
    /\ ~cards[apiOffers[2].cardId].isRFQ
    /\ apiOffers[2].amount > apiOffers[1].amount
    /\ cards[apiOffers[2].cardId].highestBid.amount = apiOffers[2].amount

\* C2 as stated: on an active RFQ listing, for every amount, an offer by a user
\* allowed to trade is rejected with nothing persisted when amount < minPrice
\* and succeeds with a pending offer persisted when amount >= minPrice.
C2_RFQEveryAmount ==
    [][ res'.op = "submitOffer"
        => \A u \in Users, c \in DOMAIN cards, a \in Amounts :
          ( Biddable(u, c) /\ cards[c].isRFQ /\ ApiSubmitOffer(u, c, a) )
          => IF a < cards[c].minPrice
             THEN ~Success(res'.code) /\ apiOffers' = apiOffers
             ELSE /\ Success(res'.code)
                  /\ apiOffers' = Append(apiOffers, PendingOffer(u, c, a)) ]_vars

\* C2 amended: the same for every amount other than 0; an amount of 0 is turned
\* down as a missing field whatever minPrice is, and persists nothing.
C2_RFQNonZeroAmount ==
    [][ res'.op = "submitOffer"
        => \A u \in Users, c \in DOMAIN cards, a \in Amounts :
          ( Biddable(u, c) /\ cards[c].isRFQ /\ ApiSubmitOffer(u, c, a) )
          => IF a = 0 \/ a < cards[c].minPrice
             THEN ~Success(res'.code) /\ apiOffers' = apiOffers
             ELSE /\ Success(res'.code)
                  /\ apiOffers' = Append(apiOffers, PendingOffer(u, c, a)) ]_vars

\* C2 witness: an offer of exactly minPrice was taken on an RFQ listing
C2_RFQOfferAtMinPrice ==
    /\ res = [op |-> "submitOffer", code |-> 201]
    /\ \E i \in DOMAIN apiOffers :
          /\ cards[apiOffers[i].cardId].isRFQ
          /\ apiOffers[i].amount = cards[apiOffers[i].cardId].minPrice
          /\ cards[apiOffers[i].cardId].totalOffers = 1

\* Offer.findOne({cardId, bidderId, status in pending/accepted}) over the
\* collection of the API handler
ApiExistingOffer(c, u) ==
    \E i \in DOMAIN apiOffers :
        /\ apiOffers[i].cardId = c
        /\ apiOffers[i].bidderId = u
        /\ apiOffers[i].status \in {"pending", "accepted"}

\* C3: a submit-offer request by a bidder who already has a pending or accepted
\* offer on the listing is rejected, persists no offer and leaves the listing's
\* offer counter and highest-bid snapshot unchanged, in the API handler and in
\* the Express route.
C3_OneLiveOfferPerBidder ==
    [][ /\ \A u \in Users, c \in DOMAIN cards, a \in Amounts :
              ( res'.op = "submitOffer" /\ ApiExistingOffer(c, u) /\ ApiSubmitOffer(u, c, a) )
              => /\ ~Success(res'.code)
                 /\ apiOffers' = apiOffers
                 /\ cards'[c].totalOffers = cards[c].totalOffers
                 /\ cards'[c].highestBid = cards[c].highestBid
        /\ \A u \in Users, c \in DOMAIN pcards, a \in {Undefined} \cup RouteAmounts :
              ( res'.op = "submitOffer" /\ ExistingOffer(c, u) /\ RouteSubmitOffer(u, c, a) )
              => /\ ~Success(res'.code)
                 /\ offers' = offers
                 /\ pcards'[c].totalOffers = pcards[c].totalOffers
                 /\ pcards'[c].highestBid = pcards[c].highestBid ]_vars

\* C7: no persisted listing of the API has both minPrice and auctionEndTime set,
\* whatever create-listing and update-listing requests were handled.
C7_ModeFieldsExclusive ==
    \A i \in DOMAIN cards :
        cards[i].minPrice = Undefined \/ cards[i].auctionEndTime = Undefined

\* a create-listing payload with a minPrice and an auction field
CarriesBothModes(p) ==
    /\ p.minPrice # Undefined
    /\ p.auctionEndTime # Undefined \/ p.auctionDuration # Undefined

\* the payloads of POST /api/cards that carry both
BothModesPayloads == { p \in CardPayloads : CarriesBothModes(p) }

\* C8 as stated: create listing rejects, persisting nothing, every payload that
\* carries both a minPrice and an auctionEndTime or auctionDuration, whichever
\* value isRFQ has.
C8_CreateRejectsBothModes ==
    [][ res'.op = "createCard"
        => \A p \in BothModesPayloads :
              ApiCreateCard(p) => ~Success(res'.code) /\ cards' = cards ]_vars

\* C8 amended: such a payload is rejected, persisting nothing, when isRFQ is
\* set; when isRFQ is not set it is handled as an auction payload, and the
\* listing persisted on success has no minPrice and the payload's end time.
C8_CreateRejectsOrDropsMinPrice ==
    [][ res'.op = "createCard"
        => /\ ~Success(res'.code)
              => \/ cards' = cards
                 \/ \A p \in BothModesPayloads : ~ApiCreateCard(p)
           /\ Success(res'.code)
              => \A p \in BothModesPayloads :
                    ApiCreateCard(p)
                    => /\ ~p.isRFQ
                       /\ Len(cards') = Len(cards) + 1
                       /\ SubSeq(cards', 1, Len(cards)) = cards
                       /\ ~cards'[Len(cards')].isRFQ
                       /\ cards'[Len(cards')].minPrice = Undefined
                       /\ cards'[Len(cards')].auctionEndTime = p.auctionEndTime ]_vars

\* C8 witness: a listing was created from an auction payload that carried a
\* minPrice (the stored document has none, so the payload is named)
C8_AuctionCreatedFromBoth ==
    /\ res = [op |-> "createCard", code |-> 201]
    /\ Len(cards) = 1
    /\ \E p \in BothModesPayloads :
          /\ ~p.isRFQ
          /\ CreateCardCode(p, now) = 201
          /\ cards[1] = NewCard(p)

---------------------------------------------------------------------------
(* Properties of the Express routes (specification Spec) *)

\* C4: after a successful accept of offer O of listing L, O is accepted, L is
\* sold, L.highestBid refers to O, and every other offer on L that was pending
\* is rejected.
C4_AcceptSettlesListing ==
    [][ \A u \in Users, id \in DOMAIN offers :
          ( res'.op = "acceptOffer" /\ res'.code = 200 /\ AcceptOffer(u, id) )
          => /\ offers'[id].status = "accepted"
             /\ pcards'[offers[id].card].status = "sold"
             /\ pcards'[offers[id].card].highestBid = id
             /\ \A j \in DOMAIN offers :
                   ( j # id /\ offers[j].card = offers[id].card
                            /\ offers[j].status = "pending" )
                   => offers'[j].status = "rejected" ]_vars

\* C4 witness: an accept succeeded on a listing with two offers; one is
\* accepted and referenced by the sold listing, the other rejected
C4_AcceptedWithRival ==
    /\ res = [op |-> "acceptOffer", code |-> 200]
    /\ \E id, j \in DOMAIN offers :
          /\ j # id
          /\ offers[j].card = offers[id].card
          /\ offers[id].status = "accepted"
          /\ offers[j].status = "rejected"
          /\ pcards[offers[id].card].status = "sold"
          /\ pcards[offers[id].card].highestBid = id

\* C5: an accept request on an offer of listing L leaves the status of every
\* offer on another listing unchanged, and every other listing unchanged.
C5_AcceptFrame ==
    [][ \A u \in Users, id \in DOMAIN offers :
          ( res'.op = "acceptOffer" /\ AcceptOffer(u, id) )
          => /\ \A j \in DOMAIN offers :
                   offers[j].card # offers[id].card
                   => offers'[j].status = offers[j].status
             /\ \A c \in DOMAIN pcards :
                   c # offers[id].card => pcards'[c] = pcards[c] ]_vars

\* C5 witness: an accept succeeded on one listing while another listing is
\* still active with its offer still pending
C5_AcceptedBesideOpenListing ==
    /\ res = [op |-> "acceptOffer", code |-> 200]
    /\ \E id, j \in DOMAIN offers :
          /\ offers[j].card # offers[id].card
          /\ offers[id].status = "accepted"
          /\ pcards[offers[id].card].status = "sold"
          /\ offers[j].status = "pending"
          /\ pcards[offers[j].card].status = "active"
          /\ pcards[offers[j].card].highestBid = j

\* C6: once a pay-commission request on offer O has succeeded, O.commissionPaid
\* is true and stays true, and every later pay-commission request on O is
\* rejected without a call of the payment collaborator and without a change of
\* the vendor totals.
C6_CommissionPaidOnce ==
    [][ \A id \in DOMAIN offers :
          charges[id].succeeded > 0
          => /\ offers[id].commissionPaid
             /\ offers'[id].commissionPaid
             /\ res'.op = "payCommission"
                => \A u \in Users \cup {NoUser}, o \in PaymentOutcomes :
                      PayCommission(u, id, o)
                      => /\ ~Success(res'.code)
                         /\ charges' = charges
                         /\ vendors' = vendors ]_vars

\* C6 witness: the commission of the only offer was paid with one call of the
\* payment collaborator, and a further pay-commission request was turned down
C6_SecondPaymentTurnedDown ==
    /\ res = [op |-> "payCommission", code |-> 400]
    /\ Len(offers) = 1
    /\ offers[1].commissionPaid
    /\ charges[1] = [calls |-> 1, succeeded |-> 1]

\* C9: an offer's status changes only from pending to accepted, rejected or
\* expired; an accepted, rejected or expired offer keeps its status.
C9_OfferStatusTerminal ==
    [][ \A id \in DOMAIN offers :
          offers'[id].status # offers[id].status
          => /\ offers[id].status = "pending"
             /\ offers'[id].status \in {"accepted", "rejected", "expired"} ]_vars

\* C10: a listing's status changes only from active to sold, expired or
\* cancelled; a sold, expired or cancelled listing keeps its status.
C10_ListingStatusTerminal ==
    [][ /\ \A c \in DOMAIN pcards :
              pcards'[c].status # pcards[c].status
              => /\ pcards[c].status = "active"
                 /\ pcards'[c].status \in {"sold", "expired", "cancelled"}
        /\ \A c \in DOMAIN cards :
              cards'[c].status # cards[c].status
              => /\ cards[c].status = "active"
                 /\ cards'[c].status \in {"sold", "expired", "cancelled"} ]_vars

\* C11: an accept or reject request by a user who is not the seller of the
\* offer's listing is answered 403 and leaves the offers and the listings
\* unchanged.
C11_OnlySellerDecides ==
    [][ res'.op \in {"acceptOffer", "rejectOffer"}
        => \A u \in Users, id \in DOMAIN offers :
              ( /\ CardFound(offers[id].card)
                /\ pcards[offers[id].card].seller # u
                /\ AcceptOffer(u, id) \/ RejectOffer(u, id) )
              => res'.code = 403 /\ offers' = offers /\ pcards' = pcards ]_vars

\* C11 witness: after the auction closed, an accept by a user who is not the
\* seller was answered 403 and the only offer is still pending
C11_StrangerTurnedAway ==
    /\ res = [op |-> "acceptOffer", code |-> 403]
    /\ Len(offers) = 1
    /\ offers[1].status = "pending"
    /\ CardFound(offers[1].card)
    /\ now > pcards[offers[1].card].auctionEndTime
    /\ pcards[offers[1].card].status = "active"

C13_ClosedListingTakesNoOffer ==
    [][ res'.op = "submitOffer"
        => /\ \A u \in Users \cup {NoUser}, c \in DOMAIN cards, a \in Amounts :
                 ( /\ \/ cards[c].status # "active"
                      \/ ~cards[c].isRFQ /\ JsGt(now, cards[c].auctionEndTime)
                   /\ ApiSubmitOffer(u, c, a) )
                 => ~Success(res'.code) /\ apiOffers' = apiOffers /\ cards' = cards
           /\ \A u \in Users \cup {NoUser}, c \in DOMAIN pcards,
                 a \in {Undefined} \cup RouteAmounts :
                 ( /\ CardFound(c)
                   /\ \/ pcards[c].status # "active"
                      \/ JsGt(now, pcards[c].auctionEndTime)
                   /\ RouteSubmitOffer(u, c, a) )
                 => ~Success(res'.code) /\ offers' = offers /\ pcards' = pcards ]_vars

\* C13 witness: a bid on an active auction of the API was turned down after
\* its end time, the listing having taken no offer
C13_LateBidTurnedDown ==
    /\ res = [op |-> "submitOffer", code |-> 400]
    /\ apiOffers = <<>>
    /\ Len(cards) = 1
    /\ ~cards[1].isRFQ
    /\ cards[1].status = "active"
    /\ now > cards[1].auctionEndTime
    /\ cards[1].auctionEndTime > 0
    /\ cards[1].totalOffers = 0

\* C14: after a successful pay-commission request on offer O, the Vendor record
\* whose user is O's bidder has totalLeads increased by 1 and
\* totalCommissionPaid increased by O.commissionAmount.
C14_VendorTotalsCredited ==
    [][ ( res'.op = "payCommission" /\ res'.code = 200 )
        => \A id \in DOMAIN offers :
              ( ~offers[id].commissionPaid /\ offers'[id].commissionPaid )
              => \E v \in DOMAIN vendors :
                    /\ vendors[v].user = offers[id].vendor
                    /\ vendors'[v].totalLeads = vendors[v].totalLeads + 1
                    /\ vendors'[v].totalCommissionPaid =
                          vendors[v].totalCommissionPaid + offers[id].commissionAmount ]_vars

\* C15: a pay-commission request answered with a failure leaves the
\* commissionPaid flag of every offer and the totals of every vendor as they were.
C15_FailedPaymentChangesNothing ==
    [][ ( res'.op = "payCommission" /\ ~Success(res'.code) )
        => /\ \A id \in DOMAIN offers :
                 offers'[id].commissionPaid = offers[id].commissionPaid
           /\ vendors' = vendors ]_vars

\* the commission rate, in percent, of a bidder: that of the bidder's vendor
\* profile when there is one, the default rate otherwise
RatePercentOf(u) ==
    IF \E v \in DOMAIN vendors : vendors[v].user = u
    THEN vendors[CHOOSE v \in DOMAIN vendors : vendors[v].user = u].commissionRate
    ELSE CommissionRatePercent

\* C16: every persisted offer carries commissionAmount = amount x the rate of
\* its bidder, and the commissionAmount of an offer never changes.
C16_CommissionFromVendorRate ==
    [][ \A id \in DOMAIN offers' :
          /\ offers'[id].commissionAmount =
                offers'[id].amount * RatePercentOf(offers'[id].vendor)
          /\ id \in DOMAIN offers
             => offers'[id].commissionAmount = offers[id].commissionAmount ]_vars

\* C17: every auction listing persisted by a create-listing request is active
\* and has, when it is created, an auctionEndTime strictly later than the clock
\* (so a create request whose end time is not in the future persists nothing).
C17_NewAuctionEndsInFuture ==
    [][ res'.op = "createCard"
        => /\ \A id \in DOMAIN pcards' \ DOMAIN pcards :
                 pcards'[id].status = "active" /\ pcards'[id].auctionEndTime > now
           /\ \A id \in DOMAIN cards' \ DOMAIN cards :
                 ~cards'[id].isRFQ
                 => cards'[id].status = "active" /\ cards'[id].auctionEndTime > now ]_vars

\* the fields of a listing that an update request does not touch
UpdateFrame(c) ==
    [ sellerId |-> c.sellerId, isRFQ |-> c.isRFQ,
      highestBid |-> c.highestBid, totalOffers |-> c.totalOffers ]

\* C18: an update-listing request changes at most status, startingPrice,
\* minPrice and auctionEndTime of the addressed listing, and no other listing
\* and no offer; with an absent id or a new end time <= the clock it changes
\* nothing.
C18_UpdateFrameAndRejections ==
    [][ res'.op = "updateCard"
        => /\ apiOffers' = apiOffers
           /\ DOMAIN cards' = DOMAIN cards
           /\ \A i \in DOMAIN cards : UpdateFrame(cards'[i]) = UpdateFrame(cards[i])
           /\ cards' # cards
              => \A id \in Ids(cards) : \A b \in BodiesFor(id) :
                    ApiUpdateCard(id, b)
                    => /\ id \in DOMAIN cards
                       /\ \A j \in DOMAIN cards \ {id} : cards'[j] = cards[j]
                       /\ ~( b.auctionEndTime # Undefined /\ b.auctionEndTime <= now ) ]_vars

\* C19: the listing of every persisted offer exists: delete listing never
\* removes a listing that an offer refers to.
C19_OfferListingExists ==
    \A i \in DOMAIN offers : CardFound(offers[i].card)

\* C20: an accept-offer request of an authenticated user is answered NotFound,
\* and changes nothing, when the offer does not exist and when the offer exists
\* but its listing does not.
C20_AcceptWithoutListingNotFound ==
    [][ res'.op = "acceptOffer"
        => \A u \in Users, id \in Ids(offers) :
              ( /\ AcceptOffer(u, id)
                /\ id \in DOMAIN offers => ~CardFound(offers[id].card) )
              => res'.code = 404 /\ offers' = offers /\ pcards' = pcards ]_vars

\* C21: a successful submit offer on an RFQ listing increases the listing's
\* totalOffers by exactly 1 and leaves its highest-bid snapshot unchanged.
C21_RFQOfferCountsOnly ==
    [][ ( res'.op = "submitOffer" /\ res'.code = 201 /\ apiOffers' # apiOffers )
        => LET L == apiOffers'[Len(apiOffers')].cardId IN
             cards[L].isRFQ
             => /\ cards'[L].totalOffers = cards[L].totalOffers + 1
                /\ cards'[L].highestBid = cards[L].highestBid ]_vars

\* an offer at or above the minimum price has been taken on an RFQ listing
C21_RFQOfferTaken ==
    /\ res = [op |-> "submitOffer", code |-> 201]
    /\ Len(apiOffers) = 1
    /\ cards[apiOffers[1].cardId].isRFQ
    /\ apiOffers[1].amount > 0
    /\ cards[apiOffers[1].cardId].totalOffers = 1
    /\ cards[apiOffers[1].cardId].highestBid.amount = 0

\* C29: every offer with commissionPaid = true has status accepted.
C29_PaidOfferIsAccepted ==
    \A i \in DOMAIN offers : offers[i].commissionPaid => offers[i].status = "accepted"

\* C26: in POST /offers, after any sequence of successful submit-offer requests
\* on a card, card.highestBid refers to an offer of that card with the greatest
\* amount among the offers submitted for it.
C26_HighestBidIsGreatest ==
    \A c \in DOMAIN pcards :
        ( \E i \in DOMAIN offers : offers[i].card = c )
        => /\ pcards[c].highestBid \in DOMAIN offers
           /\ offers[pcards[c].highestBid].card = c
           /\ \A i \in DOMAIN offers :
                 offers[i].card = c => offers[i].amount <= offers[pcards[c].highestBid].amount

\* the greatest amount among the offers of a collection (0 when there is none)
MaxAmount(os) ==
    IF os = {} THEN 0 ELSE CHOOSE a \in os : \A b \in os : b <= a

\* the amounts of the offers persisted for listing c
ApiAmountsOn(os, c) == { os[i].amount : i \in { j \in DOMAIN os : os[j].cardId = c } }

\* C23: under any interleaving of submit-offer requests on an auction listing,
\* the snapshot amount never decreases from one state to the next, and once all
\* requests are answered it is the greatest amount among the listing's offers.
C23_SnapshotIsGreatestBid ==
    [][ \A c \in DOMAIN cards :
          ~cards[c].isRFQ
          => /\ cards'[c].highestBid.amount >= cards[c].highestBid.amount
             /\ ( /\ \A t \in Tasks : inflight'[t].pc = "idle"
                  /\ ApiAmountsOn(apiOffers', c) # {} )
                => cards'[c].highestBid.amount = MaxAmount(ApiAmountsOn(apiOffers', c)) ]_vars

\* C28: under any interleaving of submit-offer requests, once all requests are
\* answered each listing's totalOffers is the number of offers persisted for
\* it; a submit request answered with an error has persisted no offer.
C28_TotalOffersCountsOffers ==
    [][ /\ ( \A t \in Tasks : inflight'[t].pc = "idle" )
           => /\ \A c \in DOMAIN cards' :
                    cards'[c].totalOffers =
                        Cardinality({ i \in DOMAIN apiOffers' : apiOffers'[i].cardId = c })
              /\ \A c \in DOMAIN pcards' :
                    pcards'[c].totalOffers =
                        Cardinality({ i \in DOMAIN offers' : offers'[i].card = c })
        /\ ( nreq' # nreq /\ res'.op = "submitOffer" /\ ~Success(res'.code) )
           => apiOffers' = apiOffers /\ offers' = offers ]_vars

\* C22: accept offer is atomic as seen by other requests: in no state is an
\* offer on listing L accepted while L is not sold, or L sold beside an
\* accepted offer while another offer on L is still pending.
C22_AcceptIsAtomic ==
    \A i \in DOMAIN offers :
        offers[i].status = "accepted"
        => /\ pcards[offers[i].card].status = "sold"
           /\ \A j \in DOMAIN offers :
                 ( j # i /\ offers[j].card = offers[i].card ) => offers[j].status # "pending"

\* an offer that is pending or accepted
Live(status) == status \in {"pending", "accepted"}

\* C24: under any interleaving of submit-offer requests, each (listing, bidder)
\* pair has at most one offer that is pending or accepted.
C24_OneLiveOfferPerPair ==
    /\ \A i, j \in DOMAIN offers :
          ( /\ i # j
            /\ offers[i].card = offers[j].card
            /\ offers[i].vendor = offers[j].vendor
            /\ Live(offers[i].status) )
          => ~Live(offers[j].status)
    /\ \A i, j \in DOMAIN apiOffers :
          ( /\ i # j
            /\ apiOffers[i].cardId = apiOffers[j].cardId
            /\ apiOffers[i].bidderId = apiOffers[j].bidderId
            /\ Live(apiOffers[i].status) )
          => ~Live(apiOffers[j].status)

\* the leads credited to the vendors so far
RECURSIVE TotalLeads(_, _)
TotalLeads(vs, n) == IF n = 0 THEN 0 ELSE vs[n].totalLeads + TotalLeads(vs, n - 1)

\* C25: under any interleaving of concurrent or retried pay-commission requests
\* on one accepted offer, the payment collaborator is charged successfully at
\* most once for the offer, and the vendor totals are incremented at most once
\* for it.
C25_ChargedAtMostOnce ==
    /\ \A id \in DOMAIN charges : charges[id].succeeded <= 1
    /\ TotalLeads(vendors, Len(vendors))
          <= Cardinality({ id \in DOMAIN offers : offers[id].commissionPaid })

\* C27: under any interleaving of accept and reject requests on the offers of
\* one listing, the listing never has two accepted offers, and once all
\* requests are answered a sold listing has exactly one accepted offer.
C27_OneAcceptedOfferPerListing ==
    \A c \in DOMAIN pcards :
        LET accepted == { i \in DOMAIN offers :
                            offers[i].card = c /\ offers[i].status = "accepted" } IN
          /\ Cardinality(accepted) <= 1
          /\ ( AllIdle /\ pcards[c].status = "sold" ) => Cardinality(accepted) = 1

\* C30: starting with at least one administrator, under any interleaving of
\* admin permission-update requests, at least one user with isAdmin = true
\* exists in every state.
C30_SomeAdminRemains ==
    \E u \in Users : perms[u].isAdmin

====
